---- MODULE Spec2Model ----
(***************************************************************************)
(* Model of the runsc "mitigate" command (package cmd): Mitigate.Execute   *)
(* and Mitigate.doExecute with the actions doMitigate, doReverse and       *)
(* doEnableDisable, run against a /proc/cpuinfo style description and the  *)
(* SMT control file.  The descriptions are the ones produced by the mock   *)
(* package (CPU.doMakeCPUString).  The mitigate package (NewCPUSet,        *)
(* CPUSet.IsVulnerable, CPUSet.String) and Mitigate.postMitigate are not   *)
(* part of the sources at hand and follow the written specification.       *)
(*                                                                         *)
(* Text is modelled as sequences of one-character strings (file contents,  *)
(* decimal numbers) and a description as a sequence of blank-line          *)
(* delimited blocks, each a sequence of "key : value" lines.               *)
(***************************************************************************)
EXTENDS Integers, Sequences, FiniteSets, TLC

\* ------------------------------------------------------------------ bounds
\* Largest number of packages, cores per package and threads per core of a
\* generated description, and largest number of positional arguments.
MaxPackages == 2
MaxCores == 2
MaxThreads == 2
MaxArgs == 1

\* ------------------------------------------------------------ text helpers
Range(s) == {s[i] : i \in 1..Len(s)}

DigitChars == <<"0", "1", "2", "3", "4", "5", "6", "7", "8", "9">>

\* fmt.Sprintf("%d", n) for n >= 0.
RECURSIVE Itoa(_)
Itoa(n) ==
    IF n < 10 THEN <<DigitChars[n + 1]>>
    ELSE Itoa(n \div 10) \o <<DigitChars[(n % 10) + 1]>>

DigitVal(c) == CHOOSE d \in 0..9 : DigitChars[d + 1] = c

\* Decimal parse of a digit sequence.
RECURSIVE Atoi(_)
Atoi(s) ==
    IF Len(s) = 0 THEN 0
    ELSE 10 * Atoi(SubSeq(s, 1, Len(s) - 1)) + DigitVal(s[Len(s)])

\* ------------------------------------------------------------- mock package
\* The mock CPUs; Bugs is the space separated tag list, one tag per element.
CascadeLake4 ==
    [Name |-> "CascadeLake", VendorID |-> "GenuineIntel", Family |-> 6,
     Model |-> 85, ModelName |-> "Intel(R) Xeon(R) CPU",
     Bugs |-> <<"spectre_v1", "spectre_v2", "spec_store_bypass", "mds", "swapgs", "taa">>,
     PhysicalCores |-> 1, Cores |-> 2, ThreadsPerCore |-> 2, IsVulnerable |-> TRUE]

Haswell2core ==
    [Name |-> "Haswell2Physical", VendorID |-> "GenuineIntel", Family |-> 6,
     Model |-> 63, ModelName |-> "Intel(R) Xeon(R) CPU",
     Bugs |-> <<"cpu_meltdown", "spectre_v1", "spectre_v2", "spec_store_bypass", "l1tf", "mds", "swapgs">>,
     PhysicalCores |-> 2, Cores |-> 1, ThreadsPerCore |-> 1, IsVulnerable |-> TRUE]

AMD2 ==
    [Name |-> "AMD", VendorID |-> "AuthenticAMD", Family |-> 23,
     Model |-> 49, ModelName |-> "AMD EPYC 7B12",
     Bugs |-> <<"sysret_ss_attrs", "spectre_v1", "spectre_v2", "spec_store_bypass">>,
     PhysicalCores |-> 1, Cores |-> 1, ThreadsPerCore |-> 2, IsVulnerable |-> FALSE]

MockCPUs == {CascadeLake4, Haswell2core, AMD2}

Line(k, v) == [key |-> k, val |-> v]

\* One block of the template of doMakeCPUString: processor i*cores*threads +
\* j*threads + k, physical id i, core id j, "cpu cores" k.
CPUBlock(tc, cores, threadsPerCore, i, j, k) ==
    << Line("processor", Itoa((i * cores + j) * threadsPerCore + k)),
       Line("vendor_id", <<tc.VendorID>>),
       Line("cpu family", Itoa(tc.Family)),
       Line("model", Itoa(tc.Model)),
       Line("model name", <<tc.ModelName>>),
       Line("physical id", Itoa(i)),
       Line("core id", Itoa(j)),
       Line("cpu cores", Itoa(k)),
       Line("bugs", tc.Bugs) >>

\* Variant of doMakeCPUString with a slip: the core id counts the threads
\* too, so that no two processors share a core.
doMakeCPUString_CoreIdPerThread(tc, physicalCores, cores, threadsPerCore) ==
    [n \in 1..(physicalCores * cores * threadsPerCore) |->
        CPUBlock(tc, cores, threadsPerCore,
                 (n - 1) \div (cores * threadsPerCore),
                 (n - 1) % (cores * threadsPerCore),
                 (n - 1) % threadsPerCore)]

\* The three nested loops of doMakeCPUString, flattened: block n (from 0)
\* is the one of i = n / (cores*threads), j = (n / threads) % cores,
\* k = n % threads.
doMakeCPUString(tc, physicalCores, cores, threadsPerCore) ==
    [n \in 1..(physicalCores * cores * threadsPerCore) |->
        CPUBlock(tc, cores, threadsPerCore,
                 (n - 1) \div (cores * threadsPerCore),
                 ((n - 1) \div threadsPerCore) % cores,
                 (n - 1) % threadsPerCore)]

MakeCPUString(tc) ==
    doMakeCPUString(tc, tc.PhysicalCores, tc.Cores, tc.ThreadsPerCore)

MakeMitigatedCPUString(tc) ==
    IF tc.IsVulnerable
    THEN doMakeCPUString(tc, tc.PhysicalCores, tc.Cores, 1)
    ELSE MakeCPUString(tc)

\* The "Partial" description of TestExecute: a complete AMD block with a
\* trailing "power management" line, then a block that has no "core id".
PartialData ==
    << << Line("processor", Itoa(0)), Line("vendor_id", <<"AuthenticAMD">>),
          Line("cpu family", Itoa(23)), Line("model", Itoa(49)),
          Line("model name", <<"AMD EPYC 7B12">>), Line("physical id", Itoa(0)),
          Line("core id", Itoa(0)), Line("cpu cores", Itoa(1)),
          Line("bugs", AMD2.Bugs), Line("power management", <<":84">>) >>,
       << Line("processor", Itoa(1)), Line("vendor_id", <<"AuthenticAMD">>),
          Line("cpu family", Itoa(23)), Line("model", Itoa(49)),
          Line("model name", <<"AMD EPYC 7B12">>), Line("physical id", Itoa(0)),
          Line("bugs", AMD2.Bugs), Line("power management", <<>>) >> >>

\* The "Empty" descriptions of TestExecute: "" and "somethingNotCPU".
EmptyData == << >>
NotCPUData == << << Line("somethingNotCPU", <<>>) >> >>

\* --------------------------------------------------- mitigate package
\* The required keys of a processor block, in their required order.
requiredKeys ==
    <<"processor", "vendor_id", "cpu family", "model", "model name",
      "physical id", "core id", "bugs">>

\* The bug tags that are exploitable across the threads of a core.
vulnerableBugs == {"mds", "l1tf"}

\* Walks the lines of a block against requiredKeys from position idx: the
\* result is the position of the required key that was expected when the
\* walk stopped (a required key out of order, or the end of the block), and
\* Len(requiredKeys) + 1 when all of them were found.  Other keys are
\* skipped.
RECURSIVE matchKeys(_, _, _)
matchKeys(block, i, idx) ==
    IF idx > Len(requiredKeys) \/ i > Len(block) THEN idx
    ELSE IF block[i].key = requiredKeys[idx] THEN matchKeys(block, i + 1, idx + 1)
    ELSE IF block[i].key \in Range(requiredKeys) THEN idx
    ELSE matchKeys(block, i + 1, idx)

valueOf(block, k) ==
    block[CHOOSE i \in 1..Len(block) :
            /\ block[i].key = k
            /\ \A j \in 1..(i - 1) : block[j].key # k].val

NoCPU ==
    [processor |-> 0, vendorID |-> "", family |-> 0, model |-> 0,
     modelName |-> "", physicalID |-> 0, coreID |-> 0, bugs |-> {}]

\* One LogicalProcessor from one block, or the required key that is missing.
newCPU(block) ==
    LET idx == matchKeys(block, 1, 1) IN
    IF idx <= Len(requiredKeys)
    THEN [ok |-> FALSE, key |-> requiredKeys[idx], cpu |-> NoCPU]
    ELSE [ok |-> TRUE, key |-> "",
          cpu |-> [processor |-> Atoi(valueOf(block, "processor")),
                   vendorID |-> valueOf(block, "vendor_id")[1],
                   family |-> Atoi(valueOf(block, "cpu family")),
                   model |-> Atoi(valueOf(block, "model")),
                   modelName |-> valueOf(block, "model name")[1],
                   physicalID |-> Atoi(valueOf(block, "physical id")),
                   coreID |-> Atoi(valueOf(block, "core id")),
                   bugs |-> Range(valueOf(block, "bugs"))]]

\* The CpuSet of a description: the processors in input order, or the
\* error: "no cpus found" when no block starts a processor, "failed to
\* match key" with the key of the first block that lacks one.
NewCPUSet(data) ==
    LET parsed == [n \in 1..Len(data) |-> newCPU(data[n])]
        bad == {n \in 1..Len(data) : ~parsed[n].ok}
    IN  IF \A n \in 1..Len(data) : \A i \in 1..Len(data[n]) : data[n][i].key # "processor"
        THEN [err |-> "no cpus found", key |-> "", set |-> << >>]
        ELSE IF bad # {}
        THEN [err |-> "failed to match key",
              key |-> parsed[CHOOSE n \in bad : \A m \in bad : n <= m].key,
              set |-> << >>]
        ELSE [err |-> "", key |-> "", set |-> [n \in 1..Len(data) |-> parsed[n].cpu]]

NumCPUs(set) == Len(set)

\* Size of the largest group of processors that share package and core id.
ThreadsPerCore(set) ==
    LET group(n) == {m \in 1..Len(set) :
                        /\ set[m].physicalID = set[n].physicalID
                        /\ set[m].coreID = set[n].coreID}
        sizes == {Cardinality(group(n)) : n \in 1..Len(set)}
    IN  IF sizes = {} THEN 0 ELSE CHOOSE s \in sizes : \A t \in sizes : t <= s

\* CPUSet.IsVulnerable: a cross-thread bug is reported and some core has
\* more than one thread.
IsVulnerable(set) ==
    /\ \E n \in 1..Len(set) : set[n].bugs \cap vulnerableBugs # {}
    /\ ThreadsPerCore(set) > 1

\* CPUSet.String: the processor ordinals in range notation, ascending:
\* runs of consecutive ordinals as a-b, single ordinals alone, separated
\* by commas.
RECURSIVE renderRuns(_, _)
renderRuns(ords, from) ==
    LET rest == {n \in ords : n >= from} IN
    IF rest = {} THEN << >>
    ELSE LET lo == CHOOSE n \in rest : \A m \in rest : n <= m
             his == {h \in rest : \A x \in lo..h : x \in rest}
             hi == CHOOSE h \in his : \A g \in his : g <= h
             run == IF hi = lo THEN Itoa(lo) ELSE Itoa(lo) \o <<"-">> \o Itoa(hi)
             tail == renderRuns(ords, hi + 1)
         IN  IF tail = << >> THEN run ELSE run \o <<",">> \o tail

String(set) == renderRuns({set[n].processor : n \in 1..Len(set)}, 0)

\* Whether a pattern occurs in a summary (an unanchored literal pattern).
matches(pattern, summary) ==
    \E i \in 0..(Len(summary) - Len(pattern)) :
        SubSeq(summary, i + 1, i + Len(pattern)) = pattern

\* Mitigate.postMitigate: with a set of acceptable patterns defined for the
\* action taken, the summary of the after set must match one of them.
postMitigate(acceptable, afterSet) ==
    IF acceptable.defined /\ \A p \in acceptable.set : ~matches(p, String(afterSet))
    THEN "mismatch regex from possible"
    ELSE ""

\* Errorf logs the message and yields the exit status of a failed operation.
Errorf(msg) == "ExitFailure"

\* ------------------------------------------------------------ cmd package
cpuInfo == "/proc/cpuinfo"
smtPath == "/sys/devices/system/cpu/smt/control"

\* The paths doExecuteTest hands to doExecute.
tmpCpuInfo == "cpuInfo.txt"
tmpSmtFile == "smt.txt"

\* The action strings, as the bytes written.
On == <<"o", "n">>
Off == <<"o", "f", "f">>

\* Mitigate.Usage, as far as it speaks of the control file: what the
\* command writes and where, what restores the CPUs, and what --reverse
\* writes ("the file above").
Usage ==
    [mitigate |-> [value |-> Off, file |-> "/sys/devices/system/cpu/smt/control"],
     restore |-> [value |-> On, file |-> "/sys/devices/system/cpu/smt/control"],
     reverse |-> [value |-> Off, file |-> "/sys/devices/system/cpu/smt/control"]]

NoFile == [exists |-> FALSE, text |-> << >>]
File(text) == [exists |-> TRUE, text |-> text]

\* One file system call (or the post-action check): what, on what, and
\* whether it returned without error.
Call(op, arg, ok) == [op |-> op, arg |-> arg, ok |-> ok]

\* Variants of doEnableDisable with a slip: a short write is tried again;
\* the error of the write is dropped.
doEnableDisable_WriteTwice(filePath, file, action, openOk, room) ==
    LET n == IF room < Len(action) THEN room ELSE Len(action) IN
    IF ~openOk
    THEN [file |-> file, err |-> "failed to open file", path |-> smtPath,
          calls |-> << Call("open", action, FALSE) >>]
    ELSE [file |-> File(SubSeq(action, 1, n) \o SubSeq(file.text, n + 1, Len(file.text))),
          err |-> IF n < Len(action) THEN "failed to write" ELSE "",
          path |-> IF n < Len(action) THEN smtPath ELSE "",
          calls |-> IF n < Len(action)
                    THEN << Call("open", action, TRUE), Call("write", action, FALSE),
                            Call("write", action, FALSE) >>
                    ELSE << Call("open", action, TRUE), Call("write", action, TRUE) >>]

doEnableDisable_DropErr(filePath, file, action, openOk, room) ==
    LET n == IF room < Len(action) THEN room ELSE Len(action) IN
    IF ~openOk
    THEN [file |-> file, err |-> "", path |-> "",
          calls |-> << Call("open", action, FALSE) >>]
    ELSE [file |-> File(SubSeq(action, 1, n) \o SubSeq(file.text, n + 1, Len(file.text))),
          err |-> "", path |-> "",
          calls |-> << Call("open", action, TRUE),
                     Call("write", action, n = Len(action)) >>]

\* doEnableDisable: os.OpenFile(filePath, O_WRONLY|O_CREATE) and one
\* f.Write(action).  openOk says whether the open succeeds and room how
\* many bytes the file takes: the write stores the first min(room, len)
\* bytes and returns an error when that is less than len.  The open creates
\* a missing file and keeps the content of an existing one; the write
\* stores at offset 0 over the old content.  Both error messages name
\* smtPath.
doEnableDisable(filePath, file, action, openOk, room) ==
    LET n == IF room < Len(action) THEN room ELSE Len(action) IN
    IF ~openOk
    THEN [file |-> file, err |-> "failed to open file", path |-> smtPath,
          calls |-> << Call("open", action, FALSE) >>]
    ELSE [file |-> File(SubSeq(action, 1, n) \o SubSeq(file.text, n + 1, Len(file.text))),
          err |-> IF n < Len(action) THEN "failed to write" ELSE "",
          path |-> IF n < Len(action) THEN smtPath ELSE "",
          calls |-> << Call("open", action, TRUE),
                     Call("write", action, n = Len(action)) >>]

NoCall(file) == [file |-> file, err |-> "", path |-> "", calls |-> << >>]

\* Variants of doMitigate with a slip: the write made for every set; the
\* test of the set inverted.
doMitigate_Unconditional(filePath, file, cpuSet, openOk, room) ==
    doEnableDisable(filePath, file, Off, openOk, room)

doMitigate_Inverted(filePath, file, cpuSet, openOk, room) ==
    IF IsVulnerable(cpuSet) THEN NoCall(file)
    ELSE doEnableDisable(filePath, file, Off, openOk, room)

\* doMitigate: nothing for a set that is not vulnerable, "off" otherwise.
doMitigate(filePath, file, cpuSet, openOk, room) ==
    IF ~IsVulnerable(cpuSet) THEN NoCall(file)
    ELSE doEnableDisable(filePath, file, Off, openOk, room)

\* Variant of doReverse with a slip: the write made for a vulnerable set
\* only.
doReverse_IfVulnerable(filePath, file, cpuSet, openOk, room) ==
    IF ~IsVulnerable(cpuSet) THEN NoCall(file)
    ELSE doEnableDisable(filePath, file, On, openOk, room)

\* doReverse: "on", whatever the set.
doReverse(filePath, file, cpuSet, openOk, room) ==
    doEnableDisable(filePath, file, On, openOk, room)

\* Variant of selectAction with a slip: the dry-run flag is not looked at.
selectAction_NoDryRun(isReverse, isDryRun) ==
    IF isReverse THEN "doReverse" ELSE "doMitigate"

\* The action doExecute picks: doMitigate, doReverse with the reverse flag,
\* and with the dry-run flag a function that does nothing.
selectAction(isReverse, isDryRun) ==
    IF isDryRun THEN "dryRun"
    ELSE IF isReverse THEN "doReverse"
    ELSE "doMitigate"

runAction(name, filePath, file, cpuSet, openOk, room) ==
    CASE name = "doMitigate" -> doMitigate(filePath, file, cpuSet, openOk, room)
      [] name = "doReverse" -> doReverse(filePath, file, cpuSet, openOk, room)
      [] OTHER -> NoCall(file)

\* Variant of getCPUSet with a slip: the error of NewCPUSet is dropped.
getCPUSet_DropParseErr(path, file) ==
    IF ~file.exists
    THEN [err |-> "failed to read", key |-> "", set |-> << >>, path |-> path]
    ELSE [err |-> "", key |-> "", set |-> NewCPUSet(file.text).set, path |-> ""]

\* Variant of getCPUSet with a slip: the error of NewCPUSet is replaced by
\* one that does not carry the key.
getCPUSet_LosesKey(path, file) ==
    IF ~file.exists
    THEN [err |-> "failed to read", key |-> "", set |-> << >>, path |-> path]
    ELSE [err |-> NewCPUSet(file.text).err, key |-> "",
          set |-> NewCPUSet(file.text).set, path |-> ""]

\* getCPUSet: ioutil.ReadFile, then mitigate.NewCPUSet on the text.
getCPUSet(path, file) ==
    IF ~file.exists
    THEN [err |-> "failed to read", key |-> "", set |-> << >>, path |-> path]
    ELSE [err |-> NewCPUSet(file.text).err, key |-> NewCPUSet(file.text).key,
          set |-> NewCPUSet(file.text).set, path |-> ""]

\* ------------------------------------------------------------------ inputs
\* The descriptions doMakeCPUString renders for the mock CPUs within the
\* bounds; they include MakeCPUString and MakeMitigatedCPUString of each.
ValidDescriptions ==
    {doMakeCPUString(tc, p, c, t) :
        tc \in MockCPUs, p \in 1..MaxPackages, c \in 1..MaxCores, t \in 1..MaxThreads}

\* A description with the line of key k taken out of block n, as "partial"
\* of TestExecute lacks "core id".
dropKey(desc, n, k) ==
    [desc EXCEPT ![n] = SelectSeq(desc[n], LAMBDA l : l.key # k)]

\* A description with the lines of the k-th and the next required key of
\* block n exchanged.
swapKeys(desc, n, k) ==
    LET at(key) == CHOOSE i \in 1..Len(desc[n]) : desc[n][i].key = key
        i1 == at(requiredKeys[k])
        i2 == at(requiredKeys[k + 1])
    IN  [desc EXCEPT ![n] = [desc[n] EXCEPT ![i1] = desc[n][i2], ![i2] = desc[n][i1]]]

\* The description the defects are made in, and the places of the
\* defective block: the first, a middle and the last one.
DefectBase == MakeCPUString(CascadeLake4)
DefectPlaces == {1, 2, Len(DefectBase)}

DefectDescriptions ==
    {EmptyData, NotCPUData, PartialData} \cup
    {dropKey(DefectBase, n, k) : n \in DefectPlaces, k \in Range(requiredKeys)} \cup
    {swapKeys(DefectBase, n, k) : n \in DefectPlaces, k \in 1..(Len(requiredKeys) - 1)}

Descriptions == ValidDescriptions \cup DefectDescriptions

\* What the host may show in place of the description once the action has
\* run: all threads, one thread per core, nothing, or no readable file.
HostViews ==
    {File(MakeCPUString(CascadeLake4)), File(MakeMitigatedCPUString(CascadeLake4)),
     File(EmptyData), NoFile}

\* The (data, reverse) pairs TestExecute runs doExecuteTest with.
TestRuns ==
    { <<MakeMitigatedCPUString(CascadeLake4), FALSE>>,
      <<MakeCPUString(CascadeLake4), TRUE>>,
      <<EmptyData, FALSE>>, <<NotCPUData, TRUE>>,
      <<PartialData, FALSE>>, <<PartialData, TRUE>> }

Undefined == [defined |-> FALSE, set |-> {}]
Defined(ps) == [defined |-> TRUE, set |-> ps]

\* The acceptable post-action patterns per operation that a build may
\* carry: none, or sets of range patterns.
AcceptableConfigs ==
    { [mitigate |-> Undefined, reverse |-> Undefined],
      [mitigate |-> Defined({<<"0", "-", "1">>}),
       reverse |-> Defined({<<"0", "-", "3">>, <<"0", "-", "7">>})],
      [mitigate |-> Undefined, reverse |-> Defined({<<"1", "-">>})] }

\* ------------------------------------------------------------------- state
VARIABLES
    goarch,        \* runtime.GOARCH
    nargs,         \* f.NArg()
    dryRun,        \* Mitigate.dryRun
    reverse,       \* Mitigate.reverse
    data,          \* Mitigate.data: what postMitigate checks against
    cpuInfoPath,   \* doExecute's cpuInfoPath
    smtFilePath,   \* doExecute's smtFilePath
    cpuInfoFile,   \* the file at cpuInfoPath
    smtFile,       \* the file at smtFilePath
    pc,            \* position in Execute / doExecute
    status,        \* the subcommands.ExitStatus returned, "" while running
    errMsg,        \* what Errorf was given
    beforeSet,     \* doExecute's beforeSet
    afterSet,      \* doExecute's afterSet
    trace,         \* the file system calls made so far, in order
    beforeData,    \* the file read for beforeSet
    smtBefore,     \* smtFile when doExecute was entered
    harness,       \* entered through doExecuteTest
    hostUpdated    \* the host has rewritten the description

vars ==
    <<goarch, nargs, dryRun, reverse, data, cpuInfoPath, smtFilePath,
      cpuInfoFile, smtFile, pc, status, errMsg, beforeSet, afterSet, trace,
      beforeData, smtBefore, harness, hostUpdated>>

NoError == [step |-> "", cause |-> "", key |-> "", path |-> ""]

Init ==
    /\ goarch \in {"amd64", "arm64", "arm"}
    /\ nargs \in 0..MaxArgs
    /\ dryRun \in BOOLEAN
    /\ reverse \in BOOLEAN
    /\ data \in AcceptableConfigs
    /\ cpuInfoPath = ""
    /\ smtFilePath = ""
    /\ cpuInfoFile \in {File(d) : d \in Descriptions} \cup {NoFile}
    /\ smtFile \in {NoFile, File(<< >>), File(On), File(Off)}
    /\ pc = "start"
    /\ status = ""
    /\ errMsg = NoError
    /\ beforeSet = << >>
    /\ afterSet = << >>
    /\ trace = << >>
    /\ beforeData = NoFile
    /\ smtBefore = smtFile
    /\ harness = FALSE
    /\ hostUpdated = FALSE

\* Variants of Execute with a slip: the positional arguments are not
\* counted; they are counted before GOARCH is looked at.
Execute_NoArgCheck ==
    /\ pc = "start"
    /\ IF goarch \in {"arm64", "arm"}
       THEN /\ status' = "ExitFailure"
            /\ pc' = "done"
            /\ UNCHANGED <<cpuInfoPath, smtFilePath>>
       ELSE /\ cpuInfoPath' = cpuInfo
            /\ smtFilePath' = smtPath
            /\ pc' = "getBefore"
            /\ UNCHANGED status
    /\ UNCHANGED <<goarch, nargs, dryRun, reverse, data, cpuInfoFile, smtFile,
                   errMsg, beforeSet, afterSet, trace, beforeData, smtBefore,
                   harness, hostUpdated>>

Execute_ArgsFirst ==
    /\ pc = "start"
    /\ IF nargs # 0
       THEN /\ status' = "ExitUsageError"
            /\ pc' = "done"
            /\ UNCHANGED <<cpuInfoPath, smtFilePath>>
       ELSE IF goarch \in {"arm64", "arm"}
       THEN /\ status' = "ExitFailure"
            /\ pc' = "done"
            /\ UNCHANGED <<cpuInfoPath, smtFilePath>>
       ELSE /\ cpuInfoPath' = cpuInfo
            /\ smtFilePath' = smtPath
            /\ pc' = "getBefore"
            /\ UNCHANGED status
    /\ UNCHANGED <<goarch, nargs, dryRun, reverse, data, cpuInfoFile, smtFile,
                   errMsg, beforeSet, afterSet, trace, beforeData, smtBefore,
                   harness, hostUpdated>>

\* Mitigate.Execute up to the call of doExecute.
Execute ==
    /\ pc = "start"
    /\ IF goarch \in {"arm64", "arm"}
       THEN /\ status' = "ExitFailure"
            /\ pc' = "done"
            /\ UNCHANGED <<cpuInfoPath, smtFilePath>>
       ELSE IF nargs # 0
       THEN /\ status' = "ExitUsageError"
            /\ pc' = "done"
            /\ UNCHANGED <<cpuInfoPath, smtFilePath>>
       ELSE /\ cpuInfoPath' = cpuInfo
            /\ smtFilePath' = smtPath
            /\ pc' = "getBefore"
            /\ UNCHANGED status
    /\ UNCHANGED <<goarch, nargs, dryRun, reverse, data, cpuInfoFile, smtFile,
                   errMsg, beforeSet, afterSet, trace, beforeData, smtBefore,
                   harness, hostUpdated>>

\* Mitigate.doExecuteTest up to the call of doExecute: a fresh Mitigate with
\* the reverse flag of the subtest, the data in a temporary description
\* file and "on" in a temporary control file.  The test builds on amd64.
doExecuteTest ==
    /\ pc = "start"
    /\ goarch = "amd64"
    /\ \E run \in TestRuns :
        /\ cpuInfoFile' = File(run[1])
        /\ reverse' = run[2]
    /\ dryRun' = FALSE
    /\ data' = [mitigate |-> Undefined, reverse |-> Undefined]
    /\ smtFile' = File(On)
    /\ smtBefore' = File(On)
    /\ cpuInfoPath' = tmpCpuInfo
    /\ smtFilePath' = tmpSmtFile
    /\ harness' = TRUE
    /\ pc' = "getBefore"
    /\ UNCHANGED <<goarch, nargs, status, errMsg, beforeSet, afterSet, trace,
                   beforeData, hostUpdated>>

\* doExecute: beforeSet, err := getCPUSet(cpuInfoPath).
GetBeforeSet ==
    /\ pc = "getBefore"
    /\ LET r == getCPUSet(cpuInfoPath, cpuInfoFile) IN
        /\ trace' = Append(trace, Call("read", <<"before">>, r.err # "failed to read"))
        /\ beforeData' = cpuInfoFile
        /\ IF r.err # ""
           THEN /\ status' = Errorf("Get before CPUSet failed")
                /\ errMsg' = [step |-> "Get before CPUSet failed", cause |-> r.err,
                              key |-> r.key, path |-> r.path]
                /\ pc' = "done"
                /\ UNCHANGED beforeSet
           ELSE /\ beforeSet' = r.set
                /\ pc' = "action"
                /\ UNCHANGED <<status, errMsg>>
    /\ UNCHANGED <<goarch, nargs, dryRun, reverse, data, cpuInfoPath, smtFilePath,
                   cpuInfoFile, smtFile, afterSet, smtBefore, harness, hostUpdated>>

\* doExecute: the action is chosen and run on smtFilePath and beforeSet.
\* The open or the write may fail, on the temporary file of doExecuteTest
\* as on the control file.
Act ==
    /\ pc = "action"
    /\ \E openOk \in BOOLEAN, room \in 0..Len(Off) :
        /\ LET r == runAction(selectAction(reverse, dryRun), smtFilePath, smtFile,
                             beforeSet, openOk, room)
           IN  /\ smtFile' = r.file
               /\ trace' = trace \o r.calls
               /\ IF r.err # ""
                  THEN /\ status' = Errorf("Action failed")
                       /\ errMsg' = [step |-> "Action failed", cause |-> r.err,
                                     key |-> "", path |-> r.path]
                       /\ pc' = "done"
                  ELSE /\ pc' = "getAfter"
                       /\ UNCHANGED <<status, errMsg>>
    /\ UNCHANGED <<goarch, nargs, dryRun, reverse, data, cpuInfoPath, smtFilePath,
                   cpuInfoFile, beforeSet, afterSet, beforeData, smtBefore,
                   harness, hostUpdated>>

\* The host: between the action and the second read the description may
\* change (the kernel takes threads offline or online, the file goes away).
\* The temporary file of doExecuteTest stays as written.
HostUpdate ==
    /\ pc = "getAfter"
    /\ ~harness
    /\ ~hostUpdated
    /\ \E f \in HostViews : cpuInfoFile' = f
    /\ hostUpdated' = TRUE
    /\ UNCHANGED <<goarch, nargs, dryRun, reverse, data, cpuInfoPath, smtFilePath,
                   smtFile, pc, status, errMsg, beforeSet, afterSet, trace,
                   beforeData, smtBefore, harness>>

\* Variants of GetAfterSet with a slip: with the dry-run flag the error of
\* the second read is not looked at; the error is never looked at; on an
\* error the control file is put back as it was.
GetAfterSet_DryRunSkips ==
    /\ pc = "getAfter"
    /\ LET r == getCPUSet(cpuInfoPath, cpuInfoFile) IN
        /\ trace' = Append(trace, Call("read", <<"after">>, r.err # "failed to read"))
        /\ IF r.err # "" /\ ~dryRun
           THEN /\ status' = Errorf("Get after CPUSet failed")
                /\ errMsg' = [step |-> "Get after CPUSet failed", cause |-> r.err,
                              key |-> r.key, path |-> r.path]
                /\ pc' = "done"
                /\ UNCHANGED afterSet
           ELSE /\ afterSet' = r.set
                /\ pc' = "postMitigate"
                /\ UNCHANGED <<status, errMsg>>
    /\ UNCHANGED <<goarch, nargs, dryRun, reverse, data, cpuInfoPath, smtFilePath,
                   cpuInfoFile, smtFile, beforeSet, beforeData, smtBefore, harness,
                   hostUpdated>>

GetAfterSet_IgnoreErr ==
    /\ pc = "getAfter"
    /\ LET r == getCPUSet(cpuInfoPath, cpuInfoFile) IN
        /\ trace' = Append(trace, Call("read", <<"after">>, r.err # "failed to read"))
        /\ IF FALSE
           THEN /\ status' = Errorf("Get after CPUSet failed")
                /\ errMsg' = [step |-> "Get after CPUSet failed", cause |-> r.err,
                              key |-> r.key, path |-> r.path]
                /\ pc' = "done"
                /\ UNCHANGED afterSet
           ELSE /\ afterSet' = r.set
                /\ pc' = "postMitigate"
                /\ UNCHANGED <<status, errMsg>>
    /\ UNCHANGED <<goarch, nargs, dryRun, reverse, data, cpuInfoPath, smtFilePath,
                   cpuInfoFile, smtFile, beforeSet, beforeData, smtBefore, harness,
                   hostUpdated>>

GetAfterSet_Rollback ==
    /\ pc = "getAfter"
    /\ LET r == getCPUSet(cpuInfoPath, cpuInfoFile) IN
        /\ trace' = Append(trace, Call("read", <<"after">>, r.err # "failed to read"))
        /\ IF r.err # ""
           THEN /\ status' = Errorf("Get after CPUSet failed")
                /\ errMsg' = [step |-> "Get after CPUSet failed", cause |-> r.err,
                              key |-> r.key, path |-> r.path]
                /\ pc' = "done"
                /\ UNCHANGED afterSet
                /\ smtFile' = smtBefore
           ELSE /\ afterSet' = r.set
                /\ pc' = "postMitigate"
                /\ UNCHANGED <<status, errMsg>>
                /\ UNCHANGED smtFile
    /\ UNCHANGED <<goarch, nargs, dryRun, reverse, data, cpuInfoPath, smtFilePath,
                   cpuInfoFile, beforeSet, beforeData, smtBefore, harness,
                   hostUpdated>>

\* doExecute: afterSet, err := getCPUSet(cpuInfoPath).
GetAfterSet ==
    /\ pc = "getAfter"
    /\ LET r == getCPUSet(cpuInfoPath, cpuInfoFile) IN
        /\ trace' = Append(trace, Call("read", <<"after">>, r.err # "failed to read"))
        /\ IF r.err # ""
           THEN /\ status' = Errorf("Get after CPUSet failed")
                /\ errMsg' = [step |-> "Get after CPUSet failed", cause |-> r.err,
                              key |-> r.key, path |-> r.path]
                /\ pc' = "done"
                /\ UNCHANGED afterSet
           ELSE /\ afterSet' = r.set
                /\ pc' = "postMitigate"
                /\ UNCHANGED <<status, errMsg>>
    /\ UNCHANGED <<goarch, nargs, dryRun, reverse, data, cpuInfoPath, smtFilePath,
                   cpuInfoFile, smtFile, beforeSet, beforeData, smtBefore, harness,
                   hostUpdated>>

\* The patterns Mitigate holds for the operation it ran.
acceptableFor(d, isReverse) == IF isReverse THEN d.reverse ELSE d.mitigate

\* Variant of PostMitigate with a slip: the error of postMitigate is not
\* looked at.
PostMitigate_IgnoreErr ==
    /\ pc = "postMitigate"
    /\ LET err == postMitigate(acceptableFor(data, reverse), afterSet) IN
        /\ trace' = Append(trace, Call("postMitigate", << >>, err = ""))
        /\ status' = "ExitSuccess"
        /\ pc' = "done"
    /\ UNCHANGED <<goarch, nargs, dryRun, reverse, data, cpuInfoPath, smtFilePath,
                   cpuInfoFile, smtFile, errMsg, beforeSet, afterSet, beforeData,
                   smtBefore, harness, hostUpdated>>

\* doExecute: m.postMitigate(afterSet), then ExitSuccess.
PostMitigate ==
    /\ pc = "postMitigate"
    /\ LET err == postMitigate(acceptableFor(data, reverse), afterSet) IN
        /\ trace' = Append(trace, Call("postMitigate", << >>, err = ""))
        /\ IF err # ""
           THEN /\ status' = Errorf("Post Mitigate failed")
                /\ errMsg' = [step |-> "Post Mitigate failed", cause |-> err,
                              key |-> "", path |-> ""]
           ELSE /\ status' = "ExitSuccess"
                /\ UNCHANGED errMsg
        /\ pc' = "done"
    /\ UNCHANGED <<goarch, nargs, dryRun, reverse, data, cpuInfoPath, smtFilePath,
                   cpuInfoFile, smtFile, beforeSet, afterSet, beforeData, smtBefore,
                   harness, hostUpdated>>

Next ==
    \/ Execute
    \/ doExecuteTest
    \/ GetBeforeSet
    \/ Act
    \/ HostUpdate
    \/ GetAfterSet
    \/ PostMitigate

Spec == Init /\ [][Next]_vars

\* ------------------------------------------------------------- properties
\* The calls on the control file made so far.
smtCalls == {i \in 1..Len(trace) : trace[i].op \in {"open", "write"}}

\* doExecute has parsed the before snapshot and its action has returned.
Acted == beforeSet # << >> /\ pc \in {"getAfter", "postMitigate", "done"}

ActionFailed == errMsg.step = "Action failed"

\* The first bytes of the control file are the action string.
StartsWith(action) ==
    /\ smtFile.exists
    /\ Len(smtFile.text) >= Len(action)
    /\ SubSeq(smtFile.text, 1, Len(action)) = action

\* C1: in a forward run without dry-run whose before snapshot parsed, once
\* the action has returned: for a before set that is not vulnerable no call
\* on the control file was made, the file is as it was and the action
\* returned no error; for a vulnerable one the control file was opened for
\* "off", no call carried "on", and unless the action failed "off" was
\* written and stands at the start of the file.
C1_ForwardWritesOffIffVulnerable ==
    (~reverse /\ ~dryRun /\ Acted) =>
        IF ~IsVulnerable(beforeSet)
        THEN /\ smtCalls = {}
             /\ smtFile = smtBefore
             /\ ~ActionFailed
        ELSE /\ \E i \in smtCalls : trace[i].op = "open" /\ trace[i].arg = Off
             /\ \A i \in smtCalls : trace[i].arg = Off
             /\ ~ActionFailed =>
                    /\ \E i \in smtCalls : trace[i] = Call("write", Off, TRUE)
                    /\ StartsWith(Off)

C1_Witness ==
    /\ ~reverse /\ ~dryRun /\ ~harness
    /\ pc = "done" /\ status = "ExitSuccess"
    /\ IsVulnerable(beforeSet)
    /\ smtBefore = File(On)
    /\ smtFile = File(Off)

\* C2: in a reverse run without dry-run whose before snapshot parsed, once
\* the action has returned the control file was opened for "on" whether the
\* before set is vulnerable or not, no call carried "off", and unless the
\* action failed "on" was written and stands at the start of the file.
C2_ReverseWritesOn ==
    (reverse /\ ~dryRun /\ Acted) =>
        /\ \E i \in smtCalls : trace[i].op = "open" /\ trace[i].arg = On
        /\ \A i \in smtCalls : trace[i].arg = On
        /\ ~ActionFailed =>
               /\ \E i \in smtCalls : trace[i] = Call("write", On, TRUE)
               /\ StartsWith(On)

C2_Witness ==
    /\ reverse /\ ~dryRun /\ ~harness
    /\ pc = "done" /\ status = "ExitSuccess"
    /\ ~IsVulnerable(beforeSet)
    /\ smtBefore = NoFile
    /\ smtFile = File(On)

\* C3: after a write of an action string that returned no error the
\* control file holds exactly that string, whatever it held before.
C3_FileIsExactlyAction ==
    \A i \in smtCalls :
        (trace[i].op = "write" /\ trace[i].ok) => smtFile = File(trace[i].arg)

\* C4: with the dry-run flag no call on the control file is ever made and
\* the file stays as it was when the run began, with or without the
\* reverse flag and for every description.
C4_DryRunNeverWrites ==
    dryRun => (smtCalls = {} /\ smtFile = smtBefore)

C4_Witness ==
    /\ dryRun /\ reverse
    /\ pc = "done" /\ status = "ExitSuccess"
    /\ IsVulnerable(beforeSet)
    /\ smtFile = File(Off)

C6_TestExecuteCascadeLake4 ==
    (harness /\ pc = "done" /\ \A i \in 1..Len(trace) : trace[i].ok) =>
        /\ (~reverse /\ beforeData = File(MakeMitigatedCPUString(CascadeLake4))) =>
                (status = "ExitSuccess" /\ smtFile = File(Off))
        /\ (reverse /\ beforeData = File(MakeCPUString(CascadeLake4))) =>
                (status = "ExitSuccess" /\ smtFile = File(On))

\* C7: when the before snapshot cannot be read or parsed (no text, no
\* processor block, a block without a required key) the run ends at once
\* in failure: the read of it is the only call made, the control file is
\* as it was and no after set exists, with and without the reverse flag.
C7_BeforeParseFailureStops ==
    (trace # << >> /\ (~beforeData.exists \/ NewCPUSet(beforeData.text).err # "")) =>
        /\ pc = "done"
        /\ status = "ExitFailure"
        /\ errMsg.step = "Get before CPUSet failed"
        /\ Len(trace) = 1 /\ trace[1].op = "read" /\ trace[1].arg = <<"before">>
        /\ smtFile = smtBefore
        /\ afterSet = << >>

C7_Witness ==
    /\ reverse /\ ~dryRun /\ ~harness
    /\ pc = "done" /\ status = "ExitFailure"
    /\ smtBefore = File(Off) /\ smtFile = File(Off)
    /\ errMsg.cause = "failed to match key" /\ errMsg.key = "core id"

\* C8: a run makes at most one open and at most one write of the control
\* file; every call on the control file comes after the read of the before
\* snapshot, which parsed; the second read comes after the action has
\* returned and after every call on the control file, and is followed by
\* none.
C8_OneWriteInOrder ==
    /\ Cardinality({i \in smtCalls : trace[i].op = "write"}) <= 1
    /\ Cardinality({i \in smtCalls : trace[i].op = "open"}) <= 1
    /\ \A i \in smtCalls :
        /\ i > 1
        /\ trace[1] = Call("read", <<"before">>, TRUE)
        /\ beforeSet # << >>
    /\ \A i \in 1..Len(trace) :
        (trace[i].op = "read" /\ trace[i].arg = <<"after">>) =>
            /\ Acted /\ pc # "getAfter"
            /\ \A j \in smtCalls : j < i

C8_Witness ==
    /\ pc = "done" /\ status = "ExitSuccess" /\ ~harness
    /\ Len(trace) = 5
    /\ trace[2].op = "open" /\ trace[3].op = "write"
    /\ trace[4].arg = <<"after">> /\ trace[5].op = "postMitigate"

\* C9: when the open or the write of the control file fails the run ends
\* at once in failure: the failed call is the last call made (no second
\* write, no second read, no post-action check) and the exit status is
\* that of a failed operation.
C9_WriteFailureStops ==
    \A i \in smtCalls :
        ~trace[i].ok =>
            /\ i = Len(trace)
            /\ pc = "done"
            /\ status = "ExitFailure"
            /\ ActionFailed
            /\ afterSet = << >>

C9_Witness ==
    /\ pc = "done" /\ status = "ExitFailure"
    /\ Len(trace) = 3
    /\ trace[3] = Call("write", Off, FALSE)
    /\ smtFile = File(<<"o", "f">>)

\* C10: when the post-action check has run, the run ends in failure with
\* the mismatch condition if a set of acceptable patterns is defined for
\* the operation and the summary of the after set matches none of them,
\* and in success if the summary matches one of them or no set is defined.
C10_PostActionVerification ==
    (pc = "done" /\ trace # << >> /\ trace[Len(trace)].op = "postMitigate") =>
        LET acceptable == IF reverse THEN data.reverse ELSE data.mitigate
            mismatch == /\ acceptable.defined
                        /\ \A p \in acceptable.set : ~matches(p, String(afterSet))
        IN  IF mismatch
            THEN /\ status = "ExitFailure"
                 /\ errMsg.step = "Post Mitigate failed"
                 /\ errMsg.cause = "mismatch regex from possible"
            ELSE /\ status = "ExitSuccess"
                 /\ errMsg = NoError

C10_Witness ==
    /\ pc = "done" /\ status = "ExitFailure"
    /\ errMsg.step = "Post Mitigate failed"
    /\ ~reverse /\ ~dryRun
    /\ data.mitigate = Defined({<<"0", "-", "1">>})
    /\ String(afterSet) = <<"0", "-", "3">>
    /\ smtFile = File(Off)

\* What a run of doExecute whose action returned no error must end with,
\* from the two snapshots alone: the step that fails, "" for none.
failingStep(before, after, acceptable) ==
    IF ~before.exists \/ NewCPUSet(before.text).err # ""
    THEN "Get before CPUSet failed"
    ELSE IF ~after.exists \/ NewCPUSet(after.text).err # ""
    THEN "Get after CPUSet failed"
    ELSE IF /\ acceptable.defined
            /\ \A p \in acceptable.set :
                    ~matches(p, String(NewCPUSet(after.text).set))
    THEN "Post Mitigate failed"
    ELSE ""

\* C11: dry-run takes away the write only.  A finished dry-run run never
\* has a failed action, and every finished run of doExecute whose action
\* did not fail, dry-run or not, ends as the snapshots it read say: in
\* failure at the before parse, the after parse or the post-action check,
\* whichever fails first, and in success when none does.
C11_DryRunKeepsErrorDetection ==
    (pc = "done" /\ trace # << >>) =>
        /\ dryRun => ~ActionFailed
        /\ ~ActionFailed =>
            LET step == failingStep(beforeData, cpuInfoFile,
                                    IF reverse THEN data.reverse ELSE data.mitigate)
            IN  /\ errMsg.step = step
                /\ status = IF step = "" THEN "ExitSuccess" ELSE "ExitFailure"

C11_Witness ==
    /\ dryRun /\ ~reverse
    /\ pc = "done" /\ status = "ExitFailure"
    /\ errMsg.step = "Get after CPUSet failed"
    /\ errMsg.cause = "no cpus found"
    /\ IsVulnerable(beforeSet)
    /\ smtFile = File(On)

\* C12 as stated: a run of Execute with positional arguments reads and
\* writes nothing and ends in the usage-error status.
C12_ArgumentsAreUsageError ==
    (~harness /\ nargs > 0) =>
        /\ trace = << >>
        /\ smtFile = smtBefore
        /\ pc = "done" => status = "ExitUsageError"

\* C12 as it holds: a run of Execute with positional arguments reads and
\* writes nothing on any architecture, never ends in success, and on an
\* architecture other than arm and arm64 ends in the usage-error status.
C12_ArgumentsAreUsageErrorOffARM ==
    (~harness /\ nargs > 0) =>
        /\ trace = << >>
        /\ smtFile = smtBefore
        /\ cpuInfoPath = "" /\ smtFilePath = ""
        /\ pc \in {"start", "done"}
        /\ pc = "done" =>
            /\ status # "ExitSuccess"
            /\ goarch \notin {"arm64", "arm"} => status = "ExitUsageError"

C12_Witness ==
    /\ ~harness /\ goarch = "amd64" /\ nargs = 1
    /\ pc = "done" /\ status = "ExitUsageError"
    /\ trace = << >>
    /\ reverse /\ ~dryRun /\ smtFile = File(Off)

\* C19: on arm and arm64 Execute ends in the status of a failed operation
\* without a read or a write, with and without positional arguments: the
\* architecture is looked at before the arguments are counted.
C19_ARMFailsBeforeArguments ==
    (goarch \in {"arm64", "arm"}) =>
        /\ trace = << >>
        /\ smtFile = smtBefore
        /\ pc \in {"start", "done"}
        /\ pc = "done" => status = "ExitFailure"

C19_Witness ==
    /\ goarch = "arm64" /\ nargs = 1
    /\ pc = "done" /\ status = "ExitFailure"
    /\ trace = << >>
    /\ errMsg = NoError

BeforeWas(d) == trace # << >> /\ beforeData = File(d)

\* The run has ended at the before parse with the error that names key.
FailedToMatch(key) ==
    /\ pc = "done"
    /\ status = "ExitFailure"
    /\ errMsg.step = "Get before CPUSet failed"
    /\ errMsg.cause = "failed to match key"
    /\ errMsg.key = key

\* C14: a description in which a block lacks a required key, or has two
\* required keys in the wrong order, fails to parse with the error that
\* names the required key expected next: the key left out, or the first
\* of the two exchanged, whether the block is the first, a middle or the
\* last one; the block of TestExecute without "core id" yields "core id".
C14_ParseErrorNamesExpectedKey ==
    /\ \A n \in DefectPlaces, k \in 1..Len(requiredKeys) :
        BeforeWas(dropKey(DefectBase, n, requiredKeys[k])) =>
            FailedToMatch(requiredKeys[k])
    /\ \A n \in DefectPlaces, k \in 1..(Len(requiredKeys) - 1) :
        BeforeWas(swapKeys(DefectBase, n, k)) => FailedToMatch(requiredKeys[k])
    /\ BeforeWas(PartialData) => FailedToMatch("core id")

C14_Witness ==
    /\ BeforeWas(swapKeys(DefectBase, Len(DefectBase), 4))
    /\ FailedToMatch("model")
    /\ ~reverse /\ ~dryRun /\ ~harness

\* C15: as the usage text says, a run of the command with --reverse (and
\* without dry-run) whose action returned without error has written the
\* value the text names for --reverse to the file the text names.
C15_ReverseWritesWhatUsageSays ==
    (~harness /\ reverse /\ ~dryRun /\ Acted /\ ~ActionFailed) =>
        /\ smtFilePath = Usage.reverse.file
        /\ \E i \in smtCalls : trace[i] = Call("write", Usage.reverse.value, TRUE)
        /\ StartsWith(Usage.reverse.value)

\* C16: a run is in success only when it is over and all four steps went
\* through in order: the before snapshot was read first and parsed, no
\* call of the action failed, the after snapshot was read after the action
\* and parsed, and the post-action check came last and passed.  The second
\* read is made, and has to parse, also when the action made no call.
C16_SuccessNeedsAllSteps ==
    (status = "ExitSuccess") =>
        /\ pc = "done"
        /\ errMsg = NoError
        /\ Len(trace) >= 3
        /\ trace[1] = Call("read", <<"before">>, TRUE)
        /\ beforeData.exists /\ NewCPUSet(beforeData.text).err = ""
        /\ beforeSet = NewCPUSet(beforeData.text).set /\ beforeSet # << >>
        /\ \A i \in 2..(Len(trace) - 2) : i \in smtCalls /\ trace[i].ok
        /\ trace[Len(trace) - 1] = Call("read", <<"after">>, TRUE)
        /\ cpuInfoFile.exists /\ NewCPUSet(cpuInfoFile.text).err = ""
        /\ afterSet = NewCPUSet(cpuInfoFile.text).set /\ afterSet # << >>
        /\ trace[Len(trace)] = Call("postMitigate", << >>, TRUE)
        /\ postMitigate(IF reverse THEN data.reverse ELSE data.mitigate, afterSet) = ""

C16_Witness ==
    /\ status = "ExitSuccess"
    /\ ~reverse /\ ~dryRun /\ ~harness /\ hostUpdated
    /\ ~IsVulnerable(beforeSet)
    /\ Len(trace) = 3
    /\ afterSet # beforeSet

\* C17: when the open or the write of the control file fails, the error
\* names the path doExecute was given for the control file.
C17_WriteErrorNamesPathUsed ==
    ActionFailed => errMsg.path = smtFilePath

\* The write of the action string to the control file returned no error.
Written(action) ==
    \E i \in smtCalls : trace[i] = Call("write", action, TRUE)

\* What the control file holds right after action is written over before.
Overwritten(before, action) ==
    File(action \o SubSeq(before.text, Len(action) + 1, Len(before.text)))

LateFailure ==
    /\ pc = "done"
    /\ errMsg.step \in {"Get after CPUSet failed", "Post Mitigate failed"}

\* C18: a run whose write to the control file returned no error and that
\* then fails at the after snapshot or at the post-action check ends in
\* failure with the control file as the write left it; nothing is put back.
C18_NoRollbackOnLateFailure ==
    \A action \in {On, Off} :
        (LateFailure /\ Written(action)) =>
            /\ status = "ExitFailure"
            /\ StartsWith(action)
            /\ smtFile = Overwritten(smtBefore, action)

C18_Witness ==
    /\ LateFailure
    /\ errMsg.step = "Get after CPUSet failed"
    /\ Written(Off)
    /\ status = "ExitFailure"
    /\ smtBefore = File(On)
    /\ smtFile = File(Off)

====
